---- MODULE Spec2Model ----
(***************************************************************************)
(* Model of the fs-utilities batch scripts:                                *)
(*   - scripts/media_to_scale_sheet/media_to_scale_sheet.py (main,         *)
(*     calculate_scaled_dimensions, get_global_scaling_factor),            *)
(*   - scripts/media_to_excel/media_to_excel.py (main's per-file loop),    *)
(*     and the same loop of scripts/png_to_excel_user_friendly/.           *)
(* Python floats are IEEE-754 doubles; the arithmetic the scripts do on    *)
(* them (int / int, float * int, int / float, int(float)) is modelled      *)
(* bit-exactly on 53-bit mantissas held in 15-bit limbs, because the       *)
(* truncation int(...) makes the last bit of a quotient visible in the     *)
(* pixel sizes the scripts compute.                                        *)
(***************************************************************************)
EXTENDS Integers, Sequences, FiniteSets, TLC

----------------------------------------------------------------------------
(* Multi-limb naturals: little-endian tuples of NLimbs limbs, base 2^15.   *)

LimbBase == 2^15

NLimbs == 5

MantBits == 53

BigOf(n) ==
    <<n % LimbBase, (n \div LimbBase) % LimbBase,
      (n \div LimbBase) \div LimbBase>> \o [k \in 1..(NLimbs - 3) |-> 0]

BigIsZero(x) == \A k \in 1..NLimbs : x[k] = 0

BigOdd(x) == x[1] % 2 = 1

RECURSIVE BigCmpR(_, _, _)
BigCmpR(x, y, k) ==
    IF k = 0 THEN 0
    ELSE IF x[k] > y[k] THEN 1
    ELSE IF x[k] < y[k] THEN -1
    ELSE BigCmpR(x, y, k - 1)

BigCmp(x, y) == BigCmpR(x, y, NLimbs)

BigGE(x, y) == BigCmp(x, y) >= 0

RECURSIVE BigSubR(_, _, _, _)
BigSubR(x, y, k, borrow) ==
    IF k > NLimbs THEN <<>>
    ELSE LET d == x[k] - y[k] - borrow
         IN  IF d < 0 THEN <<d + LimbBase>> \o BigSubR(x, y, k + 1, 1)
                      ELSE <<d>> \o BigSubR(x, y, k + 1, 0)

BigSub(x, y) == BigSubR(x, y, 1, 0)

RECURSIVE BigMulAddR(_, _, _, _)
BigMulAddR(x, n, k, carry) ==
    IF k > NLimbs THEN <<>>
    ELSE LET v == x[k] * n + carry
         IN  <<v % LimbBase>> \o BigMulAddR(x, n, k + 1, v \div LimbBase)

\* x * n + c for a small n and c
BigMulAdd(x, n, c) == BigMulAddR(x, n, 1, c)

\* x \div 2^t for 0 <= t <= 15
BigShr(x, t) ==
    [k \in 1..NLimbs |->
        (x[k] \div 2^t) + (IF k < NLimbs THEN (x[k + 1] % 2^t) * 2^(15 - t) ELSE 0)]

\* 2^b as a limb tuple
BigPow2(b) ==
    [k \in 1..NLimbs |-> IF k = (b \div 15) + 1 THEN 2^(b % 15) ELSE 0]

MantLim == BigPow2(MantBits)

----------------------------------------------------------------------------
(* IEEE-754 doubles: zero, or m * 2^e with 2^52 <= m < 2^53.               *)

FZero == [zero |-> TRUE, m |-> BigOf(0), e |-> 0]

FMake(m, e) == [zero |-> FALSE, m |-> m, e |-> e]

\* round-half-even of m (already shifted to MantBits bits) given the guard
\* bit and the sticky bit of what was shifted out
FRound(m, e, guard, sticky) ==
    IF guard /\ (sticky \/ BigOdd(m))
    THEN LET m1 == BigMulAdd(m, 1, 1)
         IN  IF BigGE(m1, MantLim) THEN FMake(BigShr(m1, 1), e + 1) ELSE FMake(m1, e)
    ELSE FMake(m, e)

\* scale the divisor up while 2*d <= r  (quotient >= 2)
RECURSIVE DivScaleUp(_, _, _)
DivScaleUp(r, d, e) ==
    LET d2 == BigMulAdd(d, 2, 0)
    IN  IF BigGE(r, d2) THEN DivScaleUp(r, d2, e + 1) ELSE <<r, d, e>>

\* scale the dividend up while r < d  (quotient < 1)
RECURSIVE DivScaleDown(_, _, _)
DivScaleDown(r, d, e) ==
    IF BigGE(r, d) THEN <<r, d, e>> ELSE DivScaleDown(BigMulAdd(r, 2, 0), d, e - 1)

\* the next n quotient bits of r / d (most significant first), d <= r < 2d at
\* the start, followed by 1 when a remainder is left and 0 when none is
RECURSIVE DivBits(_, _, _)
DivBits(r, d, n) ==
    IF n = 0 THEN <<IF BigIsZero(r) THEN 0 ELSE 1>>
    ELSE IF BigGE(r, d)
         THEN <<1>> \o DivBits(BigMulAdd(BigSub(r, d), 2, 0), d, n - 1)
         ELSE <<0>> \o DivBits(BigMulAdd(r, 2, 0), d, n - 1)

\* the natural number whose binary digits are bits[lo+1 .. lo+k]
RECURSIVE BitsValue(_, _, _)
BitsValue(bits, lo, k) ==
    IF k = 0 THEN 0 ELSE 2 * BitsValue(bits, lo, k - 1) + bits[lo + k]

\* the natural number whose binary digits are bits[1..n], as a limb tuple
BigOfBits(bits, n) ==
    [k \in 1..NLimbs |->
        LET hi == n - 15 * (k - 1)
        IN  IF hi <= 0 THEN 0
            ELSE IF hi >= 15 THEN BitsValue(bits, hi - 15, 15)
            ELSE BitsValue(bits, 0, hi)]

\* a / (d * 2^ed), correctly rounded; a >= 1 a small integer, d >= 1
FDivBig(a, d, ed) ==
    LET a0 == BigOf(a)
        s  == IF BigGE(a0, d) THEN DivScaleUp(a0, d, 0) ELSE DivScaleDown(a0, d, 0)
        b  == DivBits(s[1], s[2], MantBits + 2)
    IN  FRound(BigOfBits(b, MantBits), s[3] - (MantBits - 1) - ed,
               b[MantBits + 1] = 1, b[MantBits + 2] = 1 \/ b[MantBits + 3] = 1)

\* Python's int / int (true division) for a >= 0, b > 0
FDivInt(a, b) == IF a = 0 THEN FZero ELSE FDivBig(a, BigOf(b), 0)

\* Python's int / float for a >= 0 and a non-zero float x
FDivIntF(a, x) == IF a = 0 THEN FZero ELSE FDivBig(a, x.m, x.e)

\* the number of bits by which p < 2^(MantBits+15) exceeds MantBits bits
RECURSIVE MulExcess(_, _)
MulExcess(p, t) ==
    IF BigGE(p, BigPow2(MantBits + t)) THEN MulExcess(p, t + 1) ELSE t

\* the exact product p * 2^e rounded to MantBits bits
MulNorm(p, e) ==
    LET t == MulExcess(p, 0)
    IN  IF t = 0 THEN FMake(p, e)
        ELSE FRound(BigShr(p, t), e + t,
                    (p[1] \div 2^(t - 1)) % 2 = 1, p[1] % 2^(t - 1) # 0)

\* Python's float * int (and int * float) for n >= 0
FMulInt(x, n) ==
    IF x.zero \/ n = 0 THEN FZero
    ELSE MulNorm(BigMulAdd(x.m, n, 0), x.e)

\* Python's a > b on non-negative floats
FGreater(x, y) ==
    IF x.zero THEN FALSE
    ELSE IF y.zero THEN TRUE
    ELSE IF x.e # y.e THEN x.e > y.e
    ELSE BigCmp(x.m, y.m) > 0

Limb(x, k) == IF k <= NLimbs THEN x[k] ELSE 0

\* Python's int(x) for a float 0 <= x < 2^30
FToInt(x) ==
    IF x.zero \/ -x.e >= MantBits THEN 0
    ELSE LET ls == (-x.e) \div 15
             bs == (-x.e) % 15
         IN  (Limb(x.m, ls + 1) \div 2^bs) + Limb(x.m, ls + 2) * 2^(15 - bs)
               + Limb(x.m, ls + 3) * 2^(30 - bs)

----------------------------------------------------------------------------
(* media_to_scale_sheet.py: the size arithmetic.                           *)

FIGMA_MAX_DIMENSION == 4096

SOURCE_DPI == 300

MAIN_OUTPUT_DPI == 100

FACTOR_OUTPUT_DPI == 96

\* main: w_in = w_original / 300; target_w = int(w_in * 100)
MainTarget(p) == FToInt(FMulInt(FDivInt(p, SOURCE_DPI), MAIN_OUTPUT_DPI))

\* get_global_scaling_factor: w_in = w / 300; target_w = int(w_in * 96)
FactorTarget(p) == FToInt(FMulInt(FDivInt(p, SOURCE_DPI), FACTOR_OUTPUT_DPI))

Raised == [raised |-> TRUE, new_w |-> 0, new_h |-> 0]

Returned(new_w, new_h) == [raised |-> FALSE, new_w |-> new_w, new_h |-> new_h]

\* a plausible slip: the aspect ratio applied the wrong way round
calculate_scaled_dimensions_inverted(w, h, target_w, target_h) ==
    IF h = 0 \/ target_h = 0 THEN Raised
    ELSE LET aspect_ratio == FDivInt(w, h)
         IN  IF FGreater(FDivInt(target_w, target_h), aspect_ratio)
             THEN IF aspect_ratio.zero THEN Raised
                  ELSE Returned(FToInt(FDivIntF(target_h, aspect_ratio)), target_h)
             ELSE Returned(target_w, FToInt(FMulInt(aspect_ratio, target_w)))

\* a plausible slip: the comparison of the two aspect ratios turned round
calculate_scaled_dimensions_wrong_limit(w, h, target_w, target_h) ==
    IF h = 0 \/ target_h = 0 THEN Raised
    ELSE LET aspect_ratio == FDivInt(w, h)
         IN  IF FGreater(aspect_ratio, FDivInt(target_w, target_h))
             THEN Returned(FToInt(FMulInt(aspect_ratio, target_h)), target_h)
             ELSE IF aspect_ratio.zero THEN Raised
             ELSE Returned(target_w, FToInt(FDivIntF(target_w, aspect_ratio)))

\* calculate_scaled_dimensions(w, h, target_w, target_h); a ZeroDivisionError
\* (w / h with h = 0, target_w / target_h with target_h = 0, new_w /
\* aspect_ratio with aspect_ratio = 0.0) is the outcome Raised
calculate_scaled_dimensions(w, h, target_w, target_h) ==
    IF h = 0 THEN Raised
    ELSE LET aspect_ratio == FDivInt(w, h)
         IN  IF target_h = 0 THEN Raised
             ELSE IF FGreater(FDivInt(target_w, target_h), aspect_ratio)
             THEN Returned(FToInt(FMulInt(aspect_ratio, target_h)), target_h)
             ELSE IF aspect_ratio.zero THEN Raised
             ELSE Returned(target_w, FToInt(FDivIntF(target_w, aspect_ratio)))

\* main, lines 266-282, for an image of w_original x h_original pixels
MainDimensions(w_original, h_original) ==
    LET target_w == MainTarget(w_original)
        target_h == MainTarget(h_original)
        r == calculate_scaled_dimensions(w_original, h_original, target_w, target_h)
    IN  [raised |-> r.raised, target_w |-> target_w, target_h |-> target_h,
         w_figma |-> r.new_w, h_figma |-> r.new_h]

----------------------------------------------------------------------------
(* The input folders the scripts are run on.                               *)

MaxFiles == 2

\* pixel sizes (after orientation) of the files of a folder
DimPairs ==
    { <<900, 1200>>, <<3000, 3000>>, <<3001, 3000>>, <<15000, 3000>>,
      <<12288, 12288>>, <<12400, 300>>, <<12800, 300>>, <<12804, 300>>,
      <<3, 13000>>, <<0, 13000>>, <<5, 0>>, <<3, 279>>, <<3, 87>>,
      <<35, 6>>, <<33, 6>>, <<1, 1>>, <<4, 300>>, <<405, 399>> }

\* the step of the per-file work at which a file makes the library raise
ImageFiles ==
    { [kind |-> "image", w |-> d[1], h |-> d[2], fail |-> "none"] : d \in DimPairs }
    \cup { [kind |-> "image", w |-> 900, h |-> 1200, fail |-> x] :
             x \in {"open", "decode", "save"} }

\* a PDF: w, h are the pixel size of its first page rendered at 300 dpi
PdfFiles ==
    { [kind |-> "pdf", w |-> 900, h |-> 1200, fail |-> x] :
        x \in {"none", "convert", "nopages", "save"} }
    \cup { [kind |-> "pdf", w |-> 15000, h |-> 3000, fail |-> "none"] }

Files == ImageFiles \cup PdfFiles

Folders == UNION { [1..n -> Files] : n \in 0..MaxFiles }

\* A file name: ext is the extension after the last dot; base is the name
\* without it, cut into the stem and the suffixes the script appends or
\* looks for.  <<"a", "_first_page">> with "png" is 'a_first_page.png'.
Name(base, ext) == [base |-> base, ext |-> ext]

\* convert_pdf_to_images: base_name = os.path.splitext(basename)[0];
\* temp_output_name = f"{base_name}_first_page.png"
temp_output_name(pdf_name) == Name(Append(pdf_name.base, "_first_page"), "png")

\* main: fname.endswith('_first_page.png')
EndsWithFirstPagePng(fname) ==
    /\ fname.ext = "png"
    /\ Len(fname.base) >= 1
    /\ fname.base[Len(fname.base)] = "_first_page"

\* main: fname.replace('_first_page.png', '.pdf'), for a name that ends so
ReplaceFirstPagePng(fname) == Name(SubSeq(fname.base, 1, Len(fname.base) - 1), "pdf")

\* main: output_name = os.path.splitext(original_name)[0] + '_figma.svg'
output_name(original_name) == Name(Append(original_name.base, "_figma"), "svg")

\* the names the files of a folder can carry
ImageNames ==
    { Name(<<"a">>, "png"), Name(<<"a">>, "jpg"), Name(<<"a", "_first_page">>, "png") }

PdfNames == { Name(<<"a">>, "pdf"), Name(<<"b">>, "pdf") }

\* the names in the order a sorted directory listing gives them
InputNames ==
    << Name(<<"a">>, "jpg"), Name(<<"a">>, "pdf"), Name(<<"a">>, "png"),
       Name(<<"a", "_first_page">>, "png"), Name(<<"b">>, "pdf") >>

\* the namings of a folder's files: distinct names in listing order (of the
\* orders os.listdir may give, the sorted one), the extension '.pdf' for the
\* PDFs and only for them
NamesOf(fs) ==
    { [k \in 1..Len(fs) |-> InputNames[ix[k]]] :
        ix \in { jx \in [1..Len(fs) -> 1..Len(InputNames)] :
                   /\ \A k \in 1..(Len(fs) - 1) : jx[k] < jx[k + 1]
                   /\ \A k \in 1..Len(fs) :
                         (InputNames[jx[k]] \in PdfNames) <=> (fs[k].kind = "pdf") } }

\* the sizes main computes, tabulated once per size
MainDimensionsOf == [d \in DimPairs |-> MainDimensions(d[1], d[2])]

FactorTargetOf == [d \in DimPairs |-> <<FactorTarget(d[1]), FactorTarget(d[2])>>]

----------------------------------------------------------------------------
(* State.                                                                  *)

VARIABLES
    script,         \* the entry point that is running
    pc,             \* its position
    files,          \* the supported files of the input folder, in listing order
    names,          \* their names, in the same order
    same_dir,       \* main: the output folder is the input folder
    media_files,    \* main's work list
    pdf_i,          \* position of main's loop over pdf_files
    temp_files,     \* main's temp_files (names in the output folder)
    outdir,         \* the files of the output folder: name and content
    i,              \* position of the loop over media_files
    results,        \* what each iteration of the per-file loop did
    max_target_w,   \* get_global_scaling_factor's locals
    max_target_h,
    factor,         \* get_global_scaling_factor's return value
    row,            \* media_to_excel main's row counter
    sheet,          \* ids of the files written to the worksheet, by row
    args,           \* arguments of a call of calculate_scaled_dimensions
    ret             \* what the call returned

vars == <<script, pc, files, names, same_dir, media_files, pdf_i, temp_files,
          outdir, i, results, max_target_w, max_target_h, factor, row, sheet,
          args, ret>>

NoFactor == [kind |-> "none"]

NoCall == [kind |-> "none"]

InitCommon ==
    /\ files \in Folders
    /\ media_files = <<>>
    /\ pdf_i = 1
    /\ temp_files = <<>>
    /\ i = 1
    /\ results = <<>>
    /\ max_target_w = 0
    /\ max_target_h = 0
    /\ factor = NoFactor
    /\ row = 2
    /\ sheet = <<>>
    /\ args = NoCall
    /\ ret = NoCall

\* the scripts that do not look at names or write to an output folder
NoNames ==
    /\ names = <<>>
    /\ same_dir = FALSE
    /\ outdir = {}

RECURSIVE RemoveFirst(_, _)
\* list.remove(x)
RemoveFirst(list, x) ==
    IF list = <<>> THEN <<>>
    ELSE IF Head(list) = x THEN Tail(list)
    ELSE <<Head(list)>> \o RemoveFirst(Tail(list), x)

RECURSIVE IdsOfKind(_, _, _)
\* the ids k..Len(fs) of the files of a kind, in listing order
IdsOfKind(fs, kind, k) ==
    IF k > Len(fs) THEN <<>>
    ELSE (IF fs[k].kind = kind THEN <<k>> ELSE <<>>) \o IdsOfKind(fs, kind, k + 1)

\* main: pdf_files = [f for f in media_files if f.lower().endswith('.pdf')]
pdf_files == IdsOfKind(files, "pdf", 1)

----------------------------------------------------------------------------
(* media_to_scale_sheet.py main.                                           *)

\* a file of a folder: its name and whose pixels it holds (kind "input": the
\* input file files[id] itself; "page": the first page of the PDF files[id];
\* "svg": the SVG written for files[id])
DirEntry(name, kind, id) == [name |-> name, kind |-> kind, id |-> id]

\* open(path, 'w') / save(path): the file under that name is replaced
WriteFile(dir, name, kind, id) ==
    { x \in dir : x.name # name } \cup { DirEntry(name, kind, id) }

\* the input folder as listed
InputDir == { DirEntry(names[k], "input", k) : k \in 1..Len(files) }

Init ==
    /\ script = "scale_sheet"
    /\ pc = "gather"
    /\ InitCommon
    /\ names \in NamesOf(files)
    /\ same_dir \in BOOLEAN
    /\ outdir = IF same_dir THEN InputDir ELSE {}

\* an entry of main's media_files: a name; generated records that the name
\* was appended by the PDF pass (history only, main does not have it)
Listed(name) == [name |-> name, generated |-> FALSE]

Generated(name) == [name |-> name, generated |-> TRUE]

\* lines 221-232: list the folder; leave when it holds no supported file
Gather ==
    /\ script = "scale_sheet" /\ pc = "gather"
    /\ IF files = <<>>
       THEN /\ pc' = "exit"
            /\ UNCHANGED media_files
       ELSE /\ media_files' = [k \in 1..Len(files) |-> Listed(names[k])]
            /\ pc' = IF pdf_files = <<>> THEN "process" ELSE "pdfs"
    /\ UNCHANGED <<script, files, names, same_dir, pdf_i, temp_files, outdir, i,
                   results, max_target_w, max_target_h, factor, row, sheet,
                   args, ret>>

\* lines 233-245: one iteration of the loop over pdf_files
ConvertPdf ==
    /\ script = "scale_sheet" /\ pc = "pdfs"
    /\ LET k == pdf_files[pdf_i]
           pdf_file == names[k]
           generated_file == temp_output_name(pdf_file)
       IN  CASE files[k].fail = "convert" ->
                  \* convert_from_path raised: reported, the PDF stays listed
                  UNCHANGED <<media_files, temp_files, outdir>>
             [] files[k].fail = "nopages" ->
                  /\ media_files' = RemoveFirst(media_files, Listed(pdf_file))
                  /\ UNCHANGED <<temp_files, outdir>>
             [] OTHER ->
                  /\ media_files' = RemoveFirst(Append(media_files, Generated(generated_file)),
                                                Listed(pdf_file))
                  /\ temp_files' = Append(temp_files, generated_file)
                  /\ outdir' = WriteFile(outdir, generated_file, "page", k)
    /\ pdf_i' = pdf_i + 1
    /\ pc' = IF pdf_i < Len(pdf_files) THEN "pdfs"
             ELSE IF media_files' = <<>> THEN "cleanup" ELSE "process"
    /\ UNCHANGED <<script, files, names, same_dir, i, results, max_target_w,
                   max_target_h, factor, row, sheet, args, ret>>

\* lines 251-258: where main looks for fname and the name it labels it with;
\* then what Image.open(path) finds there (id 0, kind "missing": no file)
Located(entry) ==
    LET fname == entry.name
        from_output == EndsWithFirstPagePng(fname)
        dir == IF from_output \/ same_dir THEN outdir ELSE InputDir
        found == { x \in dir : x.name = fname }
        x == IF found = {} THEN DirEntry(fname, "missing", 0)
             ELSE CHOOSE y \in found : TRUE
    IN  [fname |-> fname, generated |-> entry.generated, from_output |-> from_output,
         original_name |-> IF from_output THEN ReplaceFirstPagePng(fname) ELSE fname,
         id |-> x.id, kind |-> x.kind]

NoSize == [w |-> 0, h |-> 0, kind |-> "none", fail |-> "open"]

Skipped(e, f) ==
    [fname |-> e.fname, generated |-> e.generated, from_output |-> e.from_output,
     original_name |-> e.original_name,
     id |-> e.id, kind |-> e.kind, status |-> "skipped", computed |-> FALSE,
     w_original |-> f.w, h_original |-> f.h, target_w |-> 0, target_h |-> 0,
     w_figma |-> 0, h_figma |-> 0]

Computed(e, f, d, status) ==
    [fname |-> e.fname, generated |-> e.generated, from_output |-> e.from_output,
     original_name |-> e.original_name,
     id |-> e.id, kind |-> e.kind, status |-> status, computed |-> TRUE,
     w_original |-> f.w, h_original |-> f.h, target_w |-> d.target_w,
     target_h |-> d.target_h, w_figma |-> d.w_figma, h_figma |-> d.h_figma]

\* Image.open(path) returns an image: the file is there and is a PNG page
\* written by convert_pdf_to_images or an image file Pillow identifies
Readable(e) ==
    \/ e.kind = "page"
    \/ e.kind = "input" /\ files[e.id].kind = "image" /\ files[e.id].fail # "open"

\* lines 251-321: one iteration of the loop over media_files.  Everything from
\* Image.open to the write of the SVG is inside one try; any exception prints
\* "Skipping" and goes on.  What Pillow's thumbnail does with a requested
\* size of 0 is not decided here: it may raise or not.
ProcessFile ==
    /\ script = "scale_sheet" /\ pc = "process"
    /\ LET e == Located(media_files[i])
           f == IF e.id = 0 THEN NoSize ELSE files[e.id]
           d == MainDimensionsOf[<<f.w, f.h>>]
       IN  \E thumbnail_raises \in BOOLEAN :
             results' = Append(results,
               IF ~Readable(e) THEN Skipped(e, f)
               ELSE IF d.raised THEN Skipped(e, f)
               ELSE IF f.fail \in {"decode", "save"}
               THEN Computed(e, f, d, "skipped")
               ELSE IF (d.w_figma = 0 \/ d.h_figma = 0) /\ thumbnail_raises
               THEN Computed(e, f, d, "skipped")
               ELSE Computed(e, f, d, "saved"))
    \* lines 313-317: the SVG of a file that got this far is written
    /\ LET r == results'[Len(results')]
       IN  outdir' = IF r.status = "saved"
                     THEN WriteFile(outdir, output_name(r.original_name), "svg", r.id)
                     ELSE outdir
    /\ i' = i + 1
    /\ pc' = IF i < Len(media_files) THEN "process" ELSE "cleanup"
    /\ UNCHANGED <<script, files, names, same_dir, media_files, pdf_i, temp_files,
                   max_target_w, max_target_h, factor, row, sheet, args, ret>>

\* a plausible slip: only the pages whose SVG was saved are removed
Cleanup_only_saved_pages ==
    /\ script = "scale_sheet" /\ pc = "cleanup"
    /\ outdir' = { x \in outdir :
                     \A k \in 1..Len(results) :
                        ~(results[k].status = "saved" /\ results[k].fname = x.name) }
    /\ pc' = "done"
    /\ UNCHANGED <<script, files, names, same_dir, media_files, pdf_i, temp_files,
                   i, results, max_target_w, max_target_h, factor, row, sheet,
                   args, ret>>

\* lines 323-334: remove every temporary file that exists, then report
Cleanup ==
    /\ script = "scale_sheet" /\ pc = "cleanup"
    /\ outdir' = { x \in outdir : \A k \in 1..Len(temp_files) : x.name # temp_files[k] }
    /\ pc' = "done"
    /\ UNCHANGED <<script, files, names, same_dir, media_files, pdf_i, temp_files,
                   i, results, max_target_w, max_target_h, factor, row, sheet,
                   args, ret>>

Next == Gather \/ ConvertPdf \/ ProcessFile \/ Cleanup

Spec == Init /\ [][Next]_vars

----------------------------------------------------------------------------
(* media_to_scale_sheet.py get_global_scaling_factor(media_files,          *)
(* input_dir), applied to the files of a folder.                           *)

FOne == FDivInt(1, 1)

\* Python's min(a, b) on floats: b when b < a, else a
FMin(a, b) == IF FGreater(a, b) THEN b ELSE a

FloatFactor(x) == [kind |-> "float", value |-> x]

InitFactor ==
    /\ script = "scale_factor"
    /\ pc = "loop"
    /\ InitCommon
    /\ NoNames

\* Image.open(path) raises for a file Pillow cannot identify (a PDF among them)
Opens(f) == f.kind = "image" /\ f.fail # "open"

\* lines 60-78: one iteration of the loop over media_files
FactorIteration ==
    /\ script = "scale_factor" /\ pc = "loop" /\ i <= Len(files)
    /\ LET f == files[i]
           t == FactorTargetOf[<<f.w, f.h>>]
       IN  IF Opens(f)
           THEN /\ max_target_w' = (IF t[1] > max_target_w THEN t[1] ELSE max_target_w)
                /\ max_target_h' = (IF t[2] > max_target_h THEN t[2] ELSE max_target_h)
                /\ results' = Append(results, [id |-> i, status |-> "measured"])
           ELSE /\ UNCHANGED <<max_target_w, max_target_h>>
                /\ results' = Append(results, [id |-> i, status |-> "warned"])
    /\ i' = i + 1
    /\ UNCHANGED <<script, names, same_dir, args, ret,
                   pc, files, media_files, pdf_i, temp_files, outdir,
                   factor, row, sheet>>

\* lines 80-83: the return; 4096 / 0 is a ZeroDivisionError nothing catches
FactorReturn ==
    /\ script = "scale_factor" /\ pc = "loop" /\ i > Len(files)
    /\ IF max_target_w <= FIGMA_MAX_DIMENSION /\ max_target_h <= FIGMA_MAX_DIMENSION
       THEN pc' = "returned" /\ factor' = FloatFactor(FOne)
       ELSE IF max_target_w = 0 \/ max_target_h = 0
       THEN pc' = "raised" /\ UNCHANGED factor
       ELSE /\ pc' = "returned"
            /\ factor' = FloatFactor(FMin(FDivInt(FIGMA_MAX_DIMENSION, max_target_w),
                                          FDivInt(FIGMA_MAX_DIMENSION, max_target_h)))
    /\ UNCHANGED <<script, names, same_dir, args, ret,
                   files, media_files, pdf_i, temp_files, outdir, i,
                   results, max_target_w, max_target_h, row, sheet>>

NextFactor == FactorIteration \/ FactorReturn

SpecFactor == InitFactor /\ [][NextFactor]_vars

----------------------------------------------------------------------------
(* The per-file loop of the Excel scripts: media_to_excel.py main, its copy *)
(* in png_to_excel_user_friendly/ and png_to_excel_user_friendly.py main.  *)

\* media_to_excel/media_to_excel.py, png_to_excel_user_friendly/
\* media_to_excel.py, png_to_excel_user_friendly/png_to_excel_user_friendly.py
ExcelScripts == {"excel", "excel_user_friendly", "png_to_excel"}

InitExcel ==
    /\ script \in ExcelScripts
    /\ pc = "gather"
    /\ InitCommon
    /\ NoNames

IsPng(e) == e.kind = "image"

\* the files the script lists: the supported ones; for png_to_excel the
\* names ending in '.png' (the images of the folder, taken to be PNGs)
ExcelListing ==
    LET listed == [k \in 1..Len(files) |-> [id |-> k, kind |-> files[k].kind]]
    IN  IF script = "png_to_excel" THEN SelectSeq(listed, IsPng) ELSE listed

\* lines 126-164: list the folder, leave when it holds no supported file,
\* else create the workbook with its header row
ExcelGather ==
    /\ script \in ExcelScripts /\ pc = "gather"
    /\ IF ExcelListing = <<>>
       THEN pc' = "exit" /\ UNCHANGED media_files
       ELSE /\ media_files' = ExcelListing
            /\ pc' = "loop"
    /\ UNCHANGED <<script, names, same_dir, args, ret,
                   files, pdf_i, temp_files, outdir, i, results,
                   max_target_w, max_target_h, factor, row, sheet>>

\* get_image_from_file(path) raises or returns None
NoImage(f) ==
    \/ f.kind = "pdf" /\ f.fail \in {"convert", "nopages"}
    \/ f.kind = "image" /\ f.fail = "open"

\* a plausible slip: the row counter advances for a skipped file too
ExcelProcessFile_row_per_file ==
    /\ script \in ExcelScripts /\ pc = "loop" /\ i <= Len(media_files)
    /\ LET e == media_files[i]
           f == files[e.id]
       IN  IF NoImage(f)
           THEN /\ results' = Append(results, [id |-> e.id, status |-> "skipped"])
                /\ i' = i + 1
                /\ row' = row + 1
                /\ UNCHANGED <<pc, sheet>>
           ELSE IF f.fail \in {"decode", "save"}
           THEN /\ pc' = "aborted"
                /\ UNCHANGED <<results, i, row, sheet>>
           ELSE /\ results' = Append(results, [id |-> e.id, status |-> "written"])
                /\ sheet' = Append(sheet, [row |-> row, id |-> e.id])
                /\ row' = row + 1
                /\ i' = i + 1
                /\ UNCHANGED pc
    /\ UNCHANGED <<script, names, same_dir, args, ret,
                   files, media_files, pdf_i, temp_files, outdir,
                   max_target_w, max_target_h, factor>>

\* lines 165-228: one iteration of the per-file loop.  Only the call of
\* get_image_from_file is inside a try; an exception of a later step
\* (thumbnail, thumb.save, XLImage) ends the run with a traceback.
ExcelProcessFile ==
    /\ script \in ExcelScripts /\ pc = "loop" /\ i <= Len(media_files)
    /\ LET e == media_files[i]
           f == files[e.id]
       IN  IF NoImage(f)
           THEN /\ results' = Append(results, [id |-> e.id, status |-> "skipped"])
                /\ i' = i + 1
                /\ UNCHANGED <<pc, row, sheet>>
           ELSE IF f.fail \in {"decode", "save"}
           THEN /\ pc' = "aborted"
                /\ UNCHANGED <<results, i, row, sheet>>
           ELSE /\ results' = Append(results, [id |-> e.id, status |-> "written"])
                /\ sheet' = Append(sheet, [row |-> row, id |-> e.id])
                /\ row' = row + 1
                /\ i' = i + 1
                /\ UNCHANGED pc
    /\ UNCHANGED <<script, names, same_dir, args, ret,
                   files, media_files, pdf_i, temp_files, outdir,
                   max_target_w, max_target_h, factor>>

\* lines 230-263: column widths, wb.save, removal of the thumbnails folder
ExcelSave ==
    /\ script \in ExcelScripts /\ pc = "loop" /\ i > Len(media_files)
    /\ pc' = "done"
    /\ UNCHANGED <<script, names, same_dir, args, ret,
                   files, media_files, pdf_i, temp_files, outdir, i,
                   results, max_target_w, max_target_h, factor, row, sheet>>

NextExcel == ExcelGather \/ ExcelProcessFile \/ ExcelSave

SpecExcel == InitExcel /\ [][NextExcel]_vars

----------------------------------------------------------------------------
(* media_to_scale_sheet.py calculate_scaled_dimensions(w, h, target_w,     *)
(* target_h), called on positive arguments.                                *)

MaxArg == 5

\* image sizes and box sizes: the small ones, and 3 x 279 against 1 x 93
\* (the same ratio, whose quotients are not exact in binary)
ImageArgs == (1..MaxArg) \cup {279}

BoxArgs == (1..MaxArg) \cup {93}

InitCsd ==
    /\ script = "scaled_dimensions"
    /\ pc = "call"
    /\ args \in [w : ImageArgs, h : ImageArgs, target_w : BoxArgs, target_h : BoxArgs]
    /\ ret = NoCall
    /\ files = <<>>
    /\ media_files = <<>>
    /\ pdf_i = 1
    /\ temp_files = <<>>
    /\ i = 1
    /\ results = <<>>
    /\ max_target_w = 0
    /\ max_target_h = 0
    /\ factor = NoFactor
    /\ row = 2
    /\ sheet = <<>>
    /\ NoNames

\* lines 38-53: the call
CsdCall ==
    /\ script = "scaled_dimensions" /\ pc = "call"
    /\ ret' = calculate_scaled_dimensions(args.w, args.h, args.target_w, args.target_h)
    /\ pc' = IF ret'.raised THEN "raised" ELSE "returned"
    /\ UNCHANGED <<script, files, names, same_dir, media_files, pdf_i, temp_files,
                   outdir, i, results, max_target_w, max_target_h, factor, row,
                   sheet, args>>

NextCsd == CsdCall

SpecCsd == InitCsd /\ [][NextCsd]_vars

----------------------------------------------------------------------------
(* Properties.                                                             *)

Abs(x) == IF x < 0 THEN -x ELSE x

Max2(a, b) == IF a > b THEN a ELSE b

Min2(a, b) == IF a < b THEN a ELSE b

RECURSIVE MaxOf(_)
MaxOf(S) == IF S = {} THEN 0 ELSE LET x == CHOOSE y \in S : TRUE
                                  IN  Max2(x, MaxOf(S \ {x}))

\* the iterations of main's per-file loop in which calculate_scaled_dimensions
\* returned sizes for an image of positive width and height
Sized ==
    { k \in 1..Len(results) :
        results[k].computed /\ results[k].w_original > 0 /\ results[k].h_original > 0 }

\* C1: no item's output width or height exceeds FIGMA_MAX_DIMENSION
C1_OutputWithinCanvas ==
    \A k \in Sized :
        /\ results[k].w_figma <= FIGMA_MAX_DIMENSION
        /\ results[k].h_figma <= FIGMA_MAX_DIMENSION

\* the larger of the batch-wide maxima of the unscaled targets
BatchMaxTarget ==
    Max2(MaxOf({ results[k].target_w : k \in Sized }),
         MaxOf({ results[k].target_h : k \in Sized }))

\* C2: when an unscaled target of the batch exceeds the canvas, every item's
\* output is its own unscaled target times the one global factor
\* 4096 / BatchMaxTarget (to the pixel)
C2_GlobalFactorAppliedToEveryItem ==
    (pc = "done" /\ BatchMaxTarget > FIGMA_MAX_DIMENSION) =>
        \A k \in Sized :
            /\ Abs(results[k].w_figma * BatchMaxTarget
                   - results[k].target_w * FIGMA_MAX_DIMENSION) < BatchMaxTarget
            /\ Abs(results[k].h_figma * BatchMaxTarget
                   - results[k].target_h * FIGMA_MAX_DIMENSION) < BatchMaxTarget

\* the batch-wide maxima of the unscaled targets as main computes them (output
\* DPI 100), over the files get_global_scaling_factor could open
OpenedIds == { k \in 1..Len(results) : results[k].status = "measured" }

MainMaxW == MaxOf({ MainDimensionsOf[<<files[k].w, files[k].h>>].target_w : k \in OpenedIds })

MainMaxH == MaxOf({ MainDimensionsOf[<<files[k].w, files[k].h>>].target_h : k \in OpenedIds })

\* C3: get_global_scaling_factor returns 1.0 when both batch-wide maxima of the
\* unscaled targets (at the output DPI of the per-item computation) are
\* <= 4096, and min(4096 / max_width, 4096 / max_height) otherwise
C3_FactorFromMainTargets ==
    pc \in {"returned", "raised"} =>
        IF MainMaxW <= FIGMA_MAX_DIMENSION /\ MainMaxH <= FIGMA_MAX_DIMENSION
        THEN pc = "returned" /\ factor = FloatFactor(FOne)
        ELSE (MainMaxW > 0 /\ MainMaxH > 0) =>
                /\ pc = "returned"
                /\ factor = FloatFactor(FMin(FDivInt(FIGMA_MAX_DIMENSION, MainMaxW),
                                             FDivInt(FIGMA_MAX_DIMENSION, MainMaxH)))

\* C4 as claimed: |target_w/target_h - w/h| < 1/min(target_w, target_h) for
\* every output with both sides >= 1
C4_AspectWithinClaimedTolerance ==
    \A k \in Sized :
        LET r == results[k]
        IN  (r.w_figma >= 1 /\ r.h_figma >= 1) =>
                Abs(r.w_figma * r.h_original - r.w_original * r.h_figma)
                    * Min2(r.w_figma, r.h_figma) < r.h_figma * r.h_original

\* C4 as amended: the output is within one pixel of proportional in the
\* dimension that is not the limiting one, |target_w * h - w * target_h| <=
\* max(w, h), that is |target_w/target_h - w/h| <= max(1, w/h) / target_h
C4_AspectWithinOnePixel ==
    \A k \in Sized :
        LET r == results[k]
        IN  Abs(r.w_figma * r.h_original - r.w_original * r.h_figma)
                <= Max2(r.w_original, r.h_original)

\* C4 (witness): an output of at least 1 x 1 pixels whose aspect ratio is off
\* by at least the claimed tolerance 1/min(target_w, target_h)
C4_Witness ==
    \E k \in Sized :
        LET r == results[k]
        IN  /\ r.w_figma >= 1 /\ r.h_figma >= 1
            /\ Abs(r.w_figma * r.h_original - r.w_original * r.h_figma)
                   * Min2(r.w_figma, r.h_figma) >= r.h_figma * r.h_original

\* C5: an item at least as wide and as high as another one of the batch is
\* output at least as wide and as high
C5_RelativeSizesPreserved ==
    \A a \in Sized : \A b \in Sized :
        (/\ results[a].w_original >= results[b].w_original
         /\ results[a].h_original >= results[b].h_original)
        => /\ results[a].w_figma >= results[b].w_figma
           /\ results[a].h_figma >= results[b].h_figma

\* C6: every output width and height is >= 1
C6_OutputAtLeastOnePixel ==
    \A k \in Sized : results[k].w_figma >= 1 /\ results[k].h_figma >= 1

\* the files among the first n with positive width and height that open
ValidIds(n) ==
    { k \in 1..n : Opens(files[k]) /\ files[k].w > 0 /\ files[k].h > 0 }

\* C7: an item of width 0 or height 0 is reported and its dimensions are not
\* part of the batch-wide maxima of get_global_scaling_factor
C7_ZeroSizedItemsLeftOut ==
    /\ \A k \in 1..Len(results) :
          (files[k].w = 0 \/ files[k].h = 0) => results[k].status = "warned"
    /\ max_target_w =
          MaxOf({ FactorTargetOf[<<files[k].w, files[k].h>>][1] : k \in ValidIds(Len(results)) })
    /\ max_target_h =
          MaxOf({ FactorTargetOf[<<files[k].w, files[k].h>>][2] : k \in ValidIds(Len(results)) })

\* C8: get_global_scaling_factor returns a factor only when some item
\* contributed dimensions
C8_EmptyBatchRejected ==
    pc = "returned" => OpenedIds # {}

\* C9: a file that fails at any per-file step is skipped, the other files are
\* still processed and the run reaches its final write
C9_PerFileErrorsNonFatal ==
    /\ pc # "aborted"
    /\ pc = "done" => Len(results) = Len(files)

\* C10: when every unscaled target of the batch fits the canvas (factor 1.0),
\* every item's output equals its unscaled target
C10_OutputEqualsTargetAtFactorOne ==
    (pc = "done" /\ BatchMaxTarget <= FIGMA_MAX_DIMENSION) =>
        \A k \in Sized :
            /\ results[k].w_figma = results[k].target_w
            /\ results[k].h_figma = results[k].target_h

\* every sized item's exact unscaled target (w/3 x h/3 at 100 over 300 dpi)
\* fits the canvas, so that the exact scaled value of an item is w/3 x h/3
ExactTargetsFitCanvas ==
    \A k \in Sized :
        /\ results[k].w_original * MAIN_OUTPUT_DPI <= FIGMA_MAX_DIMENSION * SOURCE_DPI
        /\ results[k].h_original * MAIN_OUTPUT_DPI <= FIGMA_MAX_DIMENSION * SOURCE_DPI

\* C11: every output dimension is the exact scaled value rounded to the
\* nearest integer, |out_w - exact_w| <= 1/2 and |out_h - exact_h| <= 1/2
\* (checked where the exact value is w * 100 / 300, h * 100 / 300)
C11_OutputRoundedToNearest ==
    ExactTargetsFitCanvas =>
        \A k \in Sized :
            /\ 2 * Abs(results[k].w_figma * SOURCE_DPI
                       - results[k].w_original * MAIN_OUTPUT_DPI) <= SOURCE_DPI
            /\ 2 * Abs(results[k].h_figma * SOURCE_DPI
                       - results[k].h_original * MAIN_OUTPUT_DPI) <= SOURCE_DPI

\* C18: get_global_scaling_factor never raises and returns 0 < f <= 1
C18_FactorNeverRaisesAndInUnitRange ==
    /\ pc # "raised"
    /\ pc = "returned" =>
          /\ factor.kind = "float"
          /\ ~factor.value.zero
          /\ ~FGreater(factor.value, FOne)

\* the names of the first-page PNGs main has written to the output folder
CreatedPages == { temp_files[k] : k \in 1..Len(temp_files) }

BoxWider == args.target_w * args.h > args.w * args.target_h

\* C14: calculate_scaled_dimensions on positive arguments returns new_h =
\* target_h when the box is proportionally wider than the item and new_w =
\* target_w otherwise, and the result fits the box
C14_LimitingDimensionAndFit ==
    (script = "scaled_dimensions" /\ pc # "call") =>
        /\ pc = "returned"
        /\ IF BoxWider THEN ret.new_h = args.target_h ELSE ret.new_w = args.target_w
        /\ ret.new_w <= args.target_w
        /\ ret.new_h <= args.target_h

\* C14 (witness): a call returned for a box proportionally wider than the
\* item, with the width strictly inside the box
C14_Witness ==
    /\ script = "scaled_dimensions" /\ pc = "returned"
    /\ BoxWider
    /\ ret.new_h = args.target_h
    /\ ret.new_w < args.target_w

\* the files the output folder held before the run
PreExisting == IF same_dir THEN InputDir ELSE {}

\* C15: a run of main neither overwrites nor deletes a file that existed
\* before the run: each is still in the output folder with its content
C15_PreExistingFilesKept ==
    script = "scale_sheet" => \A x \in PreExisting : x \in outdir

\* the iterations of main's per-file loop that wrote an SVG for a listed file
\* read from the input folder or for a page generated from a PDF
Saved ==
    { k \in 1..Len(results) :
        /\ results[k].status = "saved"
        /\ results[k].generated \/ ~results[k].from_output }

\* C16: the SVGs of distinct successfully processed files of one run are
\* written to distinct output paths
C16_DistinctOutputPaths ==
    script = "scale_sheet" =>
        \A j \in Saved : \A k \in Saved :
            output_name(results[j].original_name) = output_name(results[k].original_name)
                => j = k

\* C17: every listed non-PDF file is read from the input folder and labelled
\* with its own name; only the PNGs generated from PDFs in this run are read
\* from the output folder and labelled with the '.pdf' name
C17_ListedFilesReadFromInput ==
    script = "scale_sheet" =>
        \A k \in 1..Len(results) :
            IF results[k].generated
            THEN /\ results[k].from_output
                 /\ results[k].original_name \in PdfNames
            ELSE (results[k].fname \notin PdfNames) =>
                    /\ ~results[k].from_output
                    /\ results[k].original_name = results[k].fname

\* the files of the listing that get_image_from_file (Image.open) returns
\* an image for
OpenedListing == SelectSeq(media_files, LAMBDA e : ~NoImage(files[e.id]))

\* C19: in the Excel scripts' per-file loop row = 2 + the number of files
\* written so far; the data rows are rows 2, 3, ... without gap or repeat, in
\* listing order, one per file written and none for a skipped file; when the
\* loop has ended they are rows 2..n+1 for the n files that opened
C19_RowCounterInvariant ==
    script \in ExcelScripts =>
        /\ row = 2 + Len(sheet)
        /\ \A k \in 1..Len(sheet) : sheet[k].row = k + 1
        /\ \A j \in 1..Len(sheet) : \A k \in 1..Len(sheet) :
              j < k => sheet[j].id < sheet[k].id
        /\ { sheet[k].id : k \in 1..Len(sheet) }
              = { results[k].id : k \in { j \in 1..Len(results) :
                                             results[j].status = "written" } }
        /\ pc = "done" =>
              sheet = [k \in 1..Len(OpenedListing) |->
                          [row |-> k + 1, id |-> OpenedListing[k].id]]

\* C19 (witness): a finished run in which a file was written after a skipped
\* one
C19_Witness ==
    /\ script \in ExcelScripts /\ pc = "done"
    /\ \E j \in 1..Len(results) : \E k \in 1..Len(results) :
          j < k /\ results[j].status = "skipped" /\ results[k].status = "written"

====
